---------------------------- MODULE Spec2Model ----------------------------
(***************************************************************************)
(* State-machine model of src/bot.py: the YouTube -> Gemini -> X bot.      *)
(*                                                                         *)
(* One process invocation ("run") executes main() once.  Runs are          *)
(* serialized by an external scheduler; the only state that survives a     *)
(* run is the marker file last_video_id.txt.  The outcome of every         *)
(* external call (feed, file system, transcript backend, Gemini, X) is     *)
(* chosen nondeterministically.                                            *)
(*                                                                         *)
(* Python strings are sequences of one-character strings.  Python None and *)
(* "the file does not exist" are one-element sequences whose element is a  *)
(* longer word, which no Python string of the model can equal.             *)
(***************************************************************************)
EXTENDS Integers, Sequences, FiniteSets

VARIABLES
    file,                 \* content of last_video_id.txt, or NoFile
    posted,               \* video id -> number of create_tweet calls that succeeded
    runs,                 \* number of runs of main() started so far
    prevPublishFailed,    \* id whose publish failed in the previous run, or None
    pc,                   \* position of the current run inside main()
    GEMINI_API_KEY,       \* TRUE iff the environment variable is set (truthy)
    TWITTER_KEYS,         \* the set of the four X credentials that are set
    latest_video,         \* feed.entries[0], or NoEntry for None
    video_id, video_title, video_link,
    last_id,              \* result of get_last_processed_video_id(), or Unset
    transcript,           \* result of get_video_transcript(), or Unset
    content_to_summarize, \* first argument handed to summarize_with_gemini
    summary,              \* text returned by summarize_with_gemini, or Unset
    tweet_content,        \* text handed to create_tweet, or Unset
    fileAtStart,          \* content of the marker file when the run started
    calls,                \* per-run count of calls of each component
    outcome,              \* per-run result of each fallible step
    markerWriteFailed     \* some save_last_processed_video_id has raised so far

vars == << file, posted, runs, prevPublishFailed, pc, GEMINI_API_KEY,
           TWITTER_KEYS, latest_video, video_id, video_title, video_link,
           last_id, transcript, content_to_summarize, summary,
           tweet_content, fileAtStart, calls, outcome, markerWriteFailed >>

---------------------------------------------------------------------------
(* Bounds and input alphabets *)

MaxRuns == 3

None   == << "None" >>      \* Python None
NoFile == << "NoFile" >>    \* os.path.exists(LAST_VIDEO_FILE) is False
Unset  == << "Unset" >>     \* local variable not assigned yet in this run

VideoIds     == { << "a" >>, << "b" >> }
Titles       == { << "T" >> }
Links        == { << "u" >> }
Descriptions == { << "d" >> }
Summaries    == { << "s" >> }
Transcripts  == { << >>, << "c" >> }   \* texts format_transcript can return

TwitterKeyNames == { "TWITTER_API_KEY", "TWITTER_API_SECRET",
                     "TWITTER_ACCESS_TOKEN", "TWITTER_ACCESS_TOKEN_SECRET" }

Entries == [ yt_videoid : VideoIds, title : Titles,
             link : Links, summary : Descriptions ]

NoEntry == [ yt_videoid |-> None, title |-> None,
             link |-> None, summary |-> None ]

MaxFeedLen == 1

Feeds == UNION { [1..n -> Entries] : n \in 0..MaxFeedLen }

\* Marker files a first run can find: none, one written by an earlier run of
\* the program, or one committed by hand with a trailing newline.
InitialFiles == {NoFile} \cup VideoIds
                  \cup { id \o << "\n" >> : id \in VideoIds }

NoCalls == [ transcript |-> 0, summarizer |-> 0, publisher |-> 0,
             create_tweet |-> 0, save |-> 0 ]

NoOutcome == [ read |-> "unset", summarize |-> "unset",
               post |-> "unset", save |-> "unset" ]

---------------------------------------------------------------------------
(* Pure helpers *)

Whitespace == { " ", "\n", "\t", "\r" }

RECURSIVE lstrip(_)
lstrip(s) == IF s # << >> /\ Head(s) \in Whitespace THEN lstrip(Tail(s)) ELSE s

RECURSIVE rstrip(_)
rstrip(s) == IF s # << >> /\ s[Len(s)] \in Whitespace
                THEN rstrip(SubSeq(s, 1, Len(s) - 1)) ELSE s

\* str.strip()
strip(s) == rstrip(lstrip(s))

\* get_latest_video: feed.entries[0] if feed.entries else None
get_latest_video(entries) == IF entries # << >> THEN entries[1] ELSE NoEntry

\* Variant: the two parts joined by a single newline.
Fallback_OneNewline(title, description) ==
    << "Title: " >> \o title \o << "\n" >> \o << "Desc: " >> \o description

\* f"제목: {video_title}\n\n설명: {latest_video.summary}"
\* "제목: " is written "Title: " and "설명: " is written "Desc: ", one token each.
Fallback(title, description) ==
    << "Title: " >> \o title \o << "\n", "\n" >> \o << "Desc: " >> \o description

\* "if not transcript": None and the empty string are both falsy
Falsy(t) == t = None \/ t = << >>

ContentToSummarize(t, title, description) ==
    IF Falsy(t) THEN Fallback(title, description) ELSE t

\* Variant: the comparison with the marker is dropped.
IsNew_Always(vid, last) == TRUE

\* "if video_id == last_id: return"
IsNew(vid, last) == vid # last

\* Variant: the except branch logs and falls through (no return).
AfterSummarize_FallThrough(ok) == "post"

\* summarize_with_gemini raised -> return; otherwise go on to post_to_twitter
AfterSummarize(ok) == IF ok THEN "post" ELSE "done"

\* Variant: the result of post_to_twitter is ignored.
AfterPost_IgnoreResult(result) == "save"

\* Variant: the condition is inverted.
AfterPost_Inverted(result) == IF result THEN "done" ELSE "save"

\* "if post_to_twitter(summary, video_link): save_last_processed_video_id(...)"
AfterPost(result) == IF result THEN "save" ELSE "done"

\* Variant: the file is opened in append mode.
WrittenContent_Append(old, vid) == (IF old = NoFile THEN << >> ELSE old) \o vid

\* open(LAST_VIDEO_FILE, "w"); f.write(video_id): the new content of the file
WrittenContent(old, vid) == vid

\* f"{text}\n\n{video_link}"
TweetContent(text, link) == text \o << "\n", "\n" >> \o link

\* all([TWITTER_API_KEY, TWITTER_API_SECRET, TWITTER_ACCESS_TOKEN, ...])
AllTwitterKeys(keys) == \A k \in TwitterKeyNames : k \in keys

---------------------------------------------------------------------------
(* Initial state: no run started yet *)

Init ==
    /\ file \in InitialFiles
    /\ posted = [ id \in VideoIds |-> 0 ]
    /\ runs = 0
    /\ prevPublishFailed = None
    /\ pc = "idle"
    /\ GEMINI_API_KEY = FALSE
    /\ TWITTER_KEYS = {}
    /\ latest_video = NoEntry
    /\ video_id = Unset /\ video_title = Unset /\ video_link = Unset
    /\ last_id = Unset
    /\ transcript = Unset
    /\ content_to_summarize = Unset
    /\ summary = Unset
    /\ tweet_content = Unset
    /\ fileAtStart = file
    /\ calls = NoCalls
    /\ outcome = NoOutcome
    /\ markerWriteFailed = FALSE

RunEnded == pc \in { "done", "crashed" }

\* The run that just ended stopped because the Publisher call failed:
\* post_to_twitter returned False or raised for missing credentials.
PublishFailed == outcome.post \in { "False", "raised" }

---------------------------------------------------------------------------
(* Actions *)

\* The scheduler starts a process: module level (lines 14-18) reads the
\* environment, main() fetches the feed (lines 111-120).
StartRun ==
    /\ pc = "idle" \/ RunEnded
    /\ runs < MaxRuns
    /\ runs' = runs + 1
    /\ prevPublishFailed' = IF RunEnded /\ PublishFailed THEN video_id ELSE None
    /\ GEMINI_API_KEY' \in BOOLEAN
    /\ TWITTER_KEYS' \in SUBSET TwitterKeyNames
    /\ \E entries \in Feeds : latest_video' = get_latest_video(entries)
    /\ IF latest_video' = NoEntry
          THEN /\ pc' = "done"
               /\ video_id' = Unset /\ video_title' = Unset /\ video_link' = Unset
          ELSE /\ pc' = "read"
               /\ video_id' = latest_video'.yt_videoid
               /\ video_title' = latest_video'.title
               /\ video_link' = latest_video'.link
    /\ last_id' = Unset
    /\ transcript' = Unset
    /\ content_to_summarize' = Unset
    /\ summary' = Unset
    /\ tweet_content' = Unset
    /\ fileAtStart' = file
    /\ calls' = NoCalls
    /\ outcome' = NoOutcome
    /\ UNCHANGED << file, posted, markerWriteFailed >>

\* get_last_processed_video_id (lines 27-32) and the comparison (127-129).
\* open()/read() is not inside any try: an I/O error leaves main().
ReadMarker ==
    /\ pc = "read"
    /\ \/ /\ file = NoFile
          /\ last_id' = None
          /\ outcome' = [outcome EXCEPT !.read = "absent"]
       \/ /\ file # NoFile
          /\ last_id' = strip(file)
          /\ outcome' = [outcome EXCEPT !.read = "ok"]
       \/ /\ file # NoFile
          /\ last_id' = Unset
          /\ outcome' = [outcome EXCEPT !.read = "raised"]
    /\ pc' = IF outcome'.read = "raised" THEN "crashed"
             ELSE IF IsNew(video_id, last_id') THEN "transcript" ELSE "done"
    /\ UNCHANGED << file, posted, runs, prevPublishFailed, GEMINI_API_KEY,
                    TWITTER_KEYS, latest_video, video_id, video_title,
                    video_link, transcript, content_to_summarize, summary,
                    tweet_content, fileAtStart, calls, markerWriteFailed >>

\* get_video_transcript (lines 39-59) and the fallback (lines 134-140).
\* Every exception of the backend is caught and becomes None.
FetchTranscript ==
    /\ pc = "transcript"
    /\ \E t \in Transcripts \cup {None} :
          /\ transcript' = t
          /\ content_to_summarize' =
                 ContentToSummarize(t, video_title, latest_video.summary)
    /\ calls' = [calls EXCEPT !.transcript = @ + 1]
    /\ pc' = "summarize"
    /\ UNCHANGED << file, posted, runs, prevPublishFailed, GEMINI_API_KEY,
                    TWITTER_KEYS, latest_video, video_id, video_title,
                    video_link, last_id, summary, tweet_content, fileAtStart,
                    outcome, markerWriteFailed >>

\* summarize_with_gemini inside main's try/except (lines 61-86, 143-149).
Summarize ==
    /\ pc = "summarize"
    /\ calls' = [calls EXCEPT !.summarizer = @ + 1]
    /\ \/ /\ GEMINI_API_KEY
          /\ \E s \in Summaries : summary' = s
          /\ outcome' = [outcome EXCEPT !.summarize = "ok"]
       \/ /\ summary' = Unset           \* ValueError or backend error
          /\ outcome' = [outcome EXCEPT !.summarize = "raised"]
    /\ pc' = AfterSummarize(outcome'.summarize = "ok")
    /\ UNCHANGED << file, posted, runs, prevPublishFailed, GEMINI_API_KEY,
                    TWITTER_KEYS, latest_video, video_id, video_title,
                    video_link, last_id, transcript, content_to_summarize,
                    tweet_content, fileAtStart, markerWriteFailed >>

\* post_to_twitter (lines 88-108) called from line 152, outside any try.
PostToTwitter ==
    /\ pc = "post"
    /\ \/ /\ ~AllTwitterKeys(TWITTER_KEYS)          \* raise ValueError
          /\ calls' = [calls EXCEPT !.publisher = @ + 1]
          /\ outcome' = [outcome EXCEPT !.post = "raised"]
          /\ tweet_content' = Unset
          /\ pc' = "crashed"
          /\ UNCHANGED posted
       \/ /\ AllTwitterKeys(TWITTER_KEYS)           \* create_tweet succeeds
          /\ calls' = [calls EXCEPT !.publisher = @ + 1, !.create_tweet = @ + 1]
          /\ outcome' = [outcome EXCEPT !.post = "True"]
          /\ tweet_content' = TweetContent(summary, video_link)
          /\ posted' = [posted EXCEPT ![video_id] = @ + 1]
          /\ pc' = AfterPost(TRUE)
       \/ /\ AllTwitterKeys(TWITTER_KEYS)           \* create_tweet raises
          /\ calls' = [calls EXCEPT !.publisher = @ + 1, !.create_tweet = @ + 1]
          /\ outcome' = [outcome EXCEPT !.post = "False"]
          /\ tweet_content' = TweetContent(summary, video_link)
          /\ pc' = AfterPost(FALSE)
          /\ UNCHANGED posted
    /\ UNCHANGED << file, runs, prevPublishFailed, GEMINI_API_KEY,
                    TWITTER_KEYS, latest_video, video_id, video_title,
                    video_link, last_id, transcript, content_to_summarize,
                    summary, fileAtStart, markerWriteFailed >>

\* save_last_processed_video_id (lines 34-37) called from line 153, outside
\* any try.  open(..., "w") may fail (file untouched), or it truncates the
\* file and the write/flush may then fail (file left empty).
SaveMarker ==
    /\ pc = "save"
    /\ calls' = [calls EXCEPT !.save = @ + 1]
    /\ \/ /\ file' = WrittenContent(file, video_id)
          /\ outcome' = [outcome EXCEPT !.save = "ok"]
          /\ pc' = "done"
       \/ /\ file' = file
          /\ outcome' = [outcome EXCEPT !.save = "open_failed"]
          /\ pc' = "crashed"
       \/ /\ file' = << >>
          /\ outcome' = [outcome EXCEPT !.save = "write_failed"]
          /\ pc' = "crashed"
    /\ markerWriteFailed' = (markerWriteFailed \/ outcome'.save # "ok")
    /\ UNCHANGED << posted, runs, prevPublishFailed, GEMINI_API_KEY,
                    TWITTER_KEYS, latest_video, video_id, video_title,
                    video_link, last_id, transcript, content_to_summarize,
                    summary, tweet_content, fileAtStart >>

Next ==
    \/ StartRun
    \/ ReadMarker
    \/ FetchTranscript
    \/ Summarize
    \/ PostToTwitter
    \/ SaveMarker

Spec == Init /\ [][Next]_vars

---------------------------------------------------------------------------
(* Properties *)

\* C1: over serialized runs, create_tweet completes successfully at most
\* once for any video id.  Stated here for the runs in which no marker write
\* has failed (the spec's section 7 already accepts a duplicate after a
\* failed write); the claim fails even there.
C1_NoDoublePost ==
    ~markerWriteFailed => \A id \in VideoIds : posted[id] <= 1

\* C2 (as claimed): when a run has ended, the marker has been written iff
\* post_to_twitter succeeded in that run.
C2_WrittenIffPublished ==
    RunEnded => (outcome.save = "ok" <=> outcome.post = "True")

\* C2 (amended): save_last_processed_video_id is invoked at most once per
\* run and never before post_to_twitter has returned True; when the run has
\* ended it has been invoked iff post_to_twitter returned True; the marker
\* file differs from its content at the start of the run only if it was.
C2_SaveInvokedIffPublished ==
    /\ calls.save <= 1
    /\ calls.save = 1 => outcome.post = "True"
    /\ RunEnded => (calls.save = 1 <=> outcome.post = "True")
    /\ file # fileAtStart => (calls.save = 1 /\ outcome.post = "True")

C2_Witness ==
    /\ RunEnded
    /\ outcome.post = "True"
    /\ outcome.save = "open_failed"

\* C3: in a run whose newest feed entry's id equals the marker as read, the
\* transcript fetch, the Summarizer and the Publisher are never called and
\* the marker file keeps its content.
C3_NotNewNoCalls ==
    (outcome.read = "ok" /\ video_id = last_id) =>
        /\ pc = "done"
        /\ calls = NoCalls
        /\ file = fileAtStart

C3_Witness ==
    /\ pc = "done"
    /\ outcome.read = "ok"
    /\ video_id = last_id
    /\ file # video_id           \* equal only after strip()

\* C4: in a run whose Summarizer call raised, the Publisher is never called
\* and the marker file keeps its content.
C4_SummarizeFailure ==
    outcome.summarize = "raised" =>
        /\ pc = "done"
        /\ calls.publisher = 0 /\ calls.create_tweet = 0 /\ calls.save = 0
        /\ file = fileAtStart

C4_Witness ==
    /\ pc = "done"
    /\ outcome.summarize = "raised"
    /\ GEMINI_API_KEY            \* the backend call failed, not the key check

\* C5: in a run whose Publisher call failed (returned False or raised for
\* missing credentials) the marker file keeps its content.
C5_PublishFailure ==
    PublishFailed => (file = fileAtStart /\ calls.save = 0)

C5_Witness ==
    /\ pc = "done"
    /\ outcome.post = "False"
    /\ fileAtStart # NoFile

\* C6 (as claimed): when a run in which the Publisher succeeded has ended,
\* the marker file holds exactly the newest entry's id.
C6_MarkerIsNewestId ==
    (RunEnded /\ outcome.post = "True") => file = video_id

\* C6 (amended): when a run in which the Publisher succeeded and the marker
\* write raised no I/O error has ended, the marker file holds exactly the
\* newest entry's id, and reading it back yields that id.
C6_MarkerIsNewestIdWhenWritten ==
    (RunEnded /\ outcome.post = "True" /\ outcome.save = "ok") =>
        (file = video_id /\ strip(file) = video_id)

C6_Witness ==
    /\ pc = "done"
    /\ outcome.post = "True"
    /\ outcome.save = "ok"
    /\ fileAtStart \notin { NoFile, video_id }   \* a prior value is replaced

\* C7: no run leaves main() by an unhandled exception.
C7_NoUnhandledException == pc # "crashed"

\* C8 (as claimed): the content handed to the Summarizer is the fallback
\* composition when the transcript fetch returned None, and the transcript
\* whenever the fetch returned one.
C8_ContentPassed ==
    calls.summarizer = 1 =>
        content_to_summarize =
            IF transcript = None
               THEN << "Title: " >> \o video_title \o << "\n", "\n", "Desc: " >>
                        \o latest_video.summary
               ELSE transcript

\* C8 (amended): the content handed to the Summarizer is the fallback
\* composition when the transcript fetch returned None or an empty text, and
\* the transcript whenever the fetch returned a non-empty one.
C8_ContentPassedNonEmpty ==
    calls.summarizer = 1 =>
        content_to_summarize =
            IF transcript = None \/ Len(transcript) = 0
               THEN << "Title: " >> \o video_title \o << "\n", "\n", "Desc: " >>
                        \o latest_video.summary
               ELSE transcript

C8_Witness ==
    /\ calls.summarizer = 1
    /\ transcript = None
    /\ content_to_summarize # None

\* C9: when the previous run ended because the Publisher failed for V and
\* the newest feed entry of this run is still V, this run calls the
\* Summarizer for V again, and the Publisher once the Summarizer succeeded.
C9_RetryAfterPublishFailure ==
    (RunEnded /\ latest_video # NoEntry /\ video_id = prevPublishFailed) =>
        /\ calls.summarizer = 1
        /\ outcome.summarize = "ok" => calls.publisher = 1

\* C10: a marker read that fails with an I/O error yields None and the run
\* goes on as a first run would.
C10_ReadErrorIsNoMarker ==
    outcome.read = "raised" => (last_id = None /\ pc # "crashed")

=============================================================================
